---- MODULE Spec2Model ----
(***************************************************************************)
(* A model of csv-ingest-tool.py: the field parsers (month_name_to_number, *)
(* extract_dates, extract_description, determine_extent_form,              *)
(* clean_html_text) and the batch driver main.                             *)
(*                                                                         *)
(* A Python str is a sequence of characters; a character is a one-letter   *)
(* TLA+ string, except NBSP, which stands for U+00A0.  The alphabet is     *)
(* ASCII letters, digits, the punctuation the parsers look at, and the     *)
(* whitespace characters space, tab, newline and U+00A0.                   *)
(*                                                                         *)
(* A call's outcome is a record [ok, val, exc]: ok with the value          *)
(* returned, or not ok with the name of the exception raised.              *)
(***************************************************************************)
EXTENDS Integers, Sequences, FiniteSets, TLC

\* pc: where the program is; arg, ret: the argument and the outcome of the call of
\* a parser on its own.  The rest is main's: files, the directory in the order
\* iterdir() yields it; idx, how many of them the loop has processed; data_list
\* and file_open_error as in main; csv_file, omeka-ingest-data.csv on disk, and
\* csv_before, that file as the run found it.
VARIABLES pc, arg, ret, files, idx, data_list, file_open_error, csv_file, csv_before

vars == <<pc, arg, ret, files, idx, data_list, file_open_error, csv_file, csv_before>>

main_vars == <<files, idx, data_list, file_open_error, csv_file, csv_before>>

\* ------------------------------------------------------------ characters

NBSP == "nbsp"

Uppers == <<"A","B","C","D","E","F","G","H","I","J","K","L","M",
            "N","O","P","Q","R","S","T","U","V","W","X","Y","Z">>

Lowers == <<"a","b","c","d","e","f","g","h","i","j","k","l","m",
            "n","o","p","q","r","s","t","u","v","w","x","y","z">>

DigitChars == <<"0","1","2","3","4","5","6","7","8","9">>

Range(f) == {f[i] : i \in DOMAIN f}

\* a character class of a pattern: [chars], or [^chars] when negated
Class(chars) == [chars |-> chars, negated |-> FALSE]

Except(chars) == [chars |-> chars, negated |-> TRUE]

Matches(c, class) == (c \in class.chars) # class.negated

\* \d
IsDigit(c) == c \in Range(DigitChars)

\* [a-zA-Z]
Alpha == Class(Range(Uppers) \cup Range(Lowers))

\* \s, and what str.strip() strips
Space == Class({" ", "\t", "\n", NBSP})

IsSpace(c) == Matches(c, Space)

\* one character of str.lower()
LowerChar(c) ==
    IF c \in Range(Uppers)
    THEN Lowers[CHOOSE i \in DOMAIN Uppers : Uppers[i] = c]
    ELSE c

\* one character of str.upper()
UpperChar(c) ==
    IF c \in Range(Lowers)
    THEN Uppers[CHOOSE i \in DOMAIN Lowers : Lowers[i] = c]
    ELSE c

\* str.lower()
lower(s) == [i \in 1..Len(s) |-> LowerChar(s[i])]

\* str.upper()
upper(s) == [i \in 1..Len(s) |-> UpperChar(s[i])]

Min(S) == CHOOSE x \in S : \A y \in S : x <= y

Max(S) == CHOOSE x \in S : \A y \in S : x >= y

\* s with the leading and trailing characters that are in chars removed
StripChars(s, chars) ==
    LET keep == {i \in 1..Len(s) : s[i] \notin chars}
    IN  IF keep = {} THEN <<>> ELSE SubSeq(s, Min(keep), Max(keep))

\* str.strip()
strip(s) == StripChars(s, Space.chars)

\* str.strip(".")
strip_dot(s) == StripChars(s, {"."})

\* s[i:i+n] == t
StartsAt(s, i, t) ==
    /\ i >= 1
    /\ i + Len(t) - 1 <= Len(s)
    /\ \A k \in 1..Len(t) : s[i + k - 1] = t[k]

\* n digits at s[i..i+n-1]
DigitsAt(s, i, n) ==
    /\ i >= 1
    /\ i + n - 1 <= Len(s)
    /\ \A k \in 0..(n - 1) : IsDigit(s[i + k])

\* the first position from i on whose character is not of the class (Len(s) + 1
\* when there is none): where a greedy run of the class starting at i ends
RunEnd(s, i, class) ==
    LET stop == {j \in i..Len(s) : ~Matches(s[j], class)}
    IN  IF stop = {} THEN Len(s) + 1 ELSE Min(stop)

\* int() of a string of ASCII digits
RECURSIVE StrToInt(_)
StrToInt(ds) ==
    IF ds = <<>> THEN 0
    ELSE 10 * StrToInt(SubSeq(ds, 1, Len(ds) - 1))
         + (CHOOSE v \in 0..9 : DigitChars[v + 1] = ds[Len(ds)])

\* str() of a natural number
RECURSIVE IntToStr(_)
IntToStr(n) ==
    IF n < 10 THEN <<DigitChars[n + 1]>>
    ELSE IntToStr(n \div 10) \o <<DigitChars[(n % 10) + 1]>>

\* f"{n:0{width}d}" of a natural number
RECURSIVE ZeroPad(_, _)
ZeroPad(ds, width) == IF Len(ds) >= width THEN ds ELSE ZeroPad(<<"0">> \o ds, width)

\* Format without the zero padding
FormatUnpadded(n, width) == IntToStr(n)

Format(n, width) == ZeroPad(IntToStr(n), width)

\* ------------------------------------------------------------ outcomes

Ok(v) == [ok |-> TRUE, val |-> v, exc |-> ""]

Raise(e) == [ok |-> FALSE, val |-> <<>>, exc |-> e]

NoRet == [ok |-> FALSE, val |-> <<>>, exc |-> "not called"]

\* the elements of a list: a str, or a nested list of str
StrFrag(s) == [kind |-> "str", s |-> s, items |-> <<>>]

ListFrag(l) == [kind |-> "list", s |-> <<>>, items |-> l]

\* ------------------------------------------------ month_name_to_number

month_map ==
    {<<<<"j","a","n">>, 1>>,
     <<<<"j","a","n",".">>, 1>>,
     <<<<"j","a","n","u","a","r","y">>, 1>>,
     <<<<"f","e","b">>, 2>>,
     <<<<"f","e","b",".">>, 2>>,
     <<<<"f","e","b","r","u","a","r","y">>, 2>>,
     <<<<"m","a","r">>, 3>>,
     <<<<"m","a","r",".">>, 3>>,
     <<<<"m","a","r","c","h">>, 3>>,
     <<<<"a","p","r">>, 4>>,
     <<<<"a","p","r",".">>, 4>>,
     <<<<"a","p","r","i","l">>, 4>>,
     <<<<"m","a","y">>, 5>>,
     <<<<"j","u","n">>, 6>>,
     <<<<"j","u","n",".">>, 6>>,
     <<<<"j","u","n","e">>, 6>>,
     <<<<"j","u","l">>, 7>>,
     <<<<"j","u","l",".">>, 7>>,
     <<<<"j","u","l","y">>, 7>>,
     <<<<"a","u","g">>, 8>>,
     <<<<"a","u","g",".">>, 8>>,
     <<<<"a","u","g","u","s","t">>, 8>>,
     <<<<"s","e","p">>, 9>>,
     <<<<"s","e","p",".">>, 9>>,
     <<<<"s","e","p","t">>, 9>>,
     <<<<"s","e","p","t",".">>, 9>>,
     <<<<"s","e","p","t","e","m","b","e","r">>, 9>>,
     <<<<"o","c","t">>, 10>>,
     <<<<"o","c","t",".">>, 10>>,
     <<<<"o","c","t","o","b","e","r">>, 10>>,
     <<<<"n","o","v">>, 11>>,
     <<<<"n","o","v",".">>, 11>>,
     <<<<"n","o","v","e","m","b","e","r">>, 11>>,
     <<<<"d","e","c">>, 12>>,
     <<<<"d","e","c",".">>, 12>>,
     <<<<"d","e","c","e","m","b","e","r">>, 12>>}

\* dict.get(key, None); None is modelled as 0 (the caller tests truthiness only,
\* and no month has the number 0)
month_map_get(key) ==
    IF \E p \in month_map : p[1] = key
    THEN (CHOOSE p \in month_map : p[1] = key)[2]
    ELSE 0

month_name_to_number(month_name) == month_map_get(lower(strip_dot(month_name)))

\* --------------------------------------------------------- extract_dates

\* the container's element the date is read from, or the exception raised on the
\* way: [...][0][0] when the container has more than one element, else container[0]
select_text(container) ==
    IF Len(container) > 1
    THEN LET lists == SelectSeq(container, LAMBDA f : f.kind = "list")
         IN  IF lists = <<>> THEN Raise("IndexError")
             ELSE IF lists[1].items = <<>> THEN Raise("IndexError")
             ELSE Ok(lists[1].items[1])
    ELSE IF Len(container) = 0 THEN Raise("IndexError")
    ELSE IF container[1].kind = "list" THEN Raise("AttributeError")
    ELSE Ok(container[1].s)

\* re.sub(r"\[|\]|\(|\)|\?|ca\.?|c\.?", "", s) from position i on
RECURSIVE CleanFrom(_, _)
CleanFrom(s, i) ==
    IF i > Len(s) THEN <<>>
    ELSE IF s[i] \in {"[", "]", "(", ")", "?"} THEN CleanFrom(s, i + 1)
    ELSE IF StartsAt(s, i, <<"c", "a">>)
         THEN CleanFrom(s, IF StartsAt(s, i + 2, <<".">>) THEN i + 3 ELSE i + 2)
    ELSE IF s[i] = "c"
         THEN CleanFrom(s, IF StartsAt(s, i + 1, <<".">>) THEN i + 2 ELSE i + 1)
    ELSE <<s[i]>> \o CleanFrom(s, i + 1)

\* clean_text of extract_dates
clean_text(text) == strip(CleanFrom(lower(text), 1))

NoMatch == [found |-> FALSE, start |-> 0, g1 |-> <<>>, g2 |-> <<>>, g3 |-> <<>>]

\* [\./\- ]
IsDateSep(c) == c \in {".", "/", "-", " "}

SepAt(s, i) == i <= Len(s) /\ IsDateSep(s[i])

\* (?P<year>\d{4})[\./\- ](?P<month>\d{1,2})[\./\- ](?P<day>\d{1,2}) matched at i:
\* the month takes two digits when a separator and a digit follow them, else one;
\* the day takes two digits when there are two
FullDateAt(s, i) ==
    LET mlen == IF DigitsAt(s, i + 5, 2) /\ SepAt(s, i + 7) /\ DigitsAt(s, i + 8, 1)
                THEN 2 ELSE 1
        dpos == i + 5 + mlen + 1
        dlen == IF DigitsAt(s, dpos, 2) THEN 2 ELSE 1
    IN  IF /\ DigitsAt(s, i, 4)
           /\ SepAt(s, i + 4)
           /\ DigitsAt(s, i + 5, mlen)
           /\ SepAt(s, i + 5 + mlen)
           /\ DigitsAt(s, dpos, 1)
        THEN [found |-> TRUE, start |-> i, g1 |-> SubSeq(s, i, i + 3),
              g2 |-> SubSeq(s, i + 5, i + 4 + mlen),
              g3 |-> SubSeq(s, dpos, dpos + dlen - 1)]
        ELSE NoMatch

\* pattern.search(s), given for each position of s the match tried there: the
\* match that starts leftmost
Search(tried) ==
    LET hits == {i \in DOMAIN tried : tried[i].found}
    IN  IF hits = {} THEN NoMatch
        ELSE tried[CHOOSE i \in hits : \A j \in hits : tried[i].start <= tried[j].start]

full_date_pattern(s) == Search([i \in 1..Len(s) |-> FullDateAt(s, i)])

\* "between" and at least one whitespace character end just before position i:
\* where (?:between\s+)? starts, or 0
BetweenStart(s, i) ==
    LET word == <<"b","e","t","w","e","e","n">>
        at == {b \in 1..(i - 1) :
                 /\ StartsAt(s, b, word)
                 /\ b + Len(word) < i
                 /\ \A k \in (b + Len(word))..(i - 1) : IsSpace(s[k])}
    IN  IF at = {} THEN 0 ELSE Min(at)

\* the connectors of (?:and|-|to)
Connectors == {<<"a","n","d">>, <<"-">>, <<"t","o">>}

\* \D
NotDigit == Except(Range(DigitChars))

\* (?:between\s+)?(\d{4})\D+(?:and|-|to)\D+(\d{4}) with group 1 at i: what lies
\* between the two years is all non-digits, so group 2 starts where the run of
\* non-digits after group 1 ends, and that run must hold a connector with at least
\* one character before it and one after it
YearRangeAt(s, i) ==
    LET j == RunEnd(s, i + 4, NotDigit)
        b == BetweenStart(s, i)
    IN  IF /\ DigitsAt(s, i, 4)
           /\ DigitsAt(s, j, 4)
           /\ \E c \in Connectors :
                \E p \in (i + 5)..(j - 1 - Len(c)) : StartsAt(s, p, c)
        THEN [found |-> TRUE, start |-> IF b > 0 THEN b ELSE i,
              g1 |-> SubSeq(s, i, i + 3), g2 |-> SubSeq(s, j, j + 3), g3 |-> <<>>]
        ELSE NoMatch

year_range_pattern(s) == Search([i \in 1..Len(s) |-> YearRangeAt(s, i)])

\* [\s.,]
YmSep == Class(Space.chars \cup {".", ","})

\* (?P<year>\d{4})[\s.,]*(?P<monthname>[a-zA-Z]+) matched at i: g1 the year,
\* g2 the month name
YearMonthAt(s, i) ==
    LET j == RunEnd(s, i + 4, YmSep)
        k == RunEnd(s, j, Alpha)
    IN  IF DigitsAt(s, i, 4) /\ k > j
        THEN [found |-> TRUE, start |-> i, g1 |-> SubSeq(s, i, i + 3),
              g2 |-> SubSeq(s, j, k - 1), g3 |-> <<>>]
        ELSE NoMatch

\* (?P<monthname2>[a-zA-Z]+)[\s.,]*(?P<year2>\d{4}) matched at i: g1 the year,
\* g2 the month name
MonthYearAt(s, i) ==
    LET j == RunEnd(s, i, Alpha)
        k == RunEnd(s, j, YmSep)
    IN  IF j > i /\ DigitsAt(s, k, 4)
        THEN [found |-> TRUE, start |-> i, g1 |-> SubSeq(s, k, k + 3),
              g2 |-> SubSeq(s, i, j - 1), g3 |-> <<>>]
        ELSE NoMatch

\* the two alternatives of ym_pattern at i, the first one first
YmAt(s, i) == IF YearMonthAt(s, i).found THEN YearMonthAt(s, i) ELSE MonthYearAt(s, i)

ym_pattern(s) == Search([i \in 1..Len(s) |-> YmAt(s, i)])

\* a year that stands alone, no digit before it and none after it
YearAloneAt(s, i) ==
    IF DigitsAt(s, i, 4) /\ ~DigitsAt(s, i - 1, 1) /\ ~DigitsAt(s, i + 4, 1)
    THEN [found |-> TRUE, start |-> i, g1 |-> SubSeq(s, i, i + 3),
          g2 |-> <<>>, g3 |-> <<>>]
    ELSE NoMatch

\* (\d{4}) matched at i
YearAt(s, i) ==
    IF DigitsAt(s, i, 4)
    THEN [found |-> TRUE, start |-> i, g1 |-> SubSeq(s, i, i + 3),
          g2 |-> <<>>, g3 |-> <<>>]
    ELSE NoMatch

\* year_pattern finding the last year of the text, not the first
year_pattern_last(s) ==
    LET hits == {i \in 1..Len(s) : YearAt(s, i).found}
    IN  IF hits = {} THEN NoMatch ELSE YearAt(s, Max(hits))

year_pattern(s) == Search([i \in 1..Len(s) |-> YearAt(s, i)])

\* the returns of extract_dates, given what the four patterns found in clean_text:
\* the first of them that matched decides
format_date(m, yr_range, ym, y) ==
    IF m.found
    THEN Format(StrToInt(m.g1), 4) \o <<"-">> \o Format(StrToInt(m.g2), 2)
         \o <<"-">> \o Format(StrToInt(m.g3), 2)
    ELSE IF yr_range.found
    THEN Format(StrToInt(yr_range.g1), 4) \o <<"/">>
         \o Format(StrToInt(yr_range.g2), 4)
    ELSE IF ym.found
    THEN LET month_num == month_name_to_number(ym.g2)
         IN  IF month_num # 0
             THEN Format(StrToInt(ym.g1), 4) \o <<"-">> \o Format(month_num, 2)
             ELSE Format(StrToInt(ym.g1), 4)
    ELSE IF y.found THEN Format(StrToInt(y.g1), 4)
    ELSE <<>>

\* extract_dates from clean_text on
parse_date(clean) ==
    format_date(full_date_pattern(clean), year_range_pattern(clean),
                ym_pattern(clean), year_pattern(clean))

extract_dates(container) ==
    LET text == select_text(container)
    IN  IF text.ok THEN Ok(parse_date(clean_text(text.val))) ELSE text

\* --------------------------------------------------- extract_description

\* "sep".join(parts)
RECURSIVE join(_, _)
join(sep, parts) ==
    IF parts = <<>> THEN <<>>
    ELSE IF Len(parts) = 1 THEN parts[1]
    ELSE parts[1] \o sep \o join(sep, Tail(parts))

\* . of a pattern
NotNewline == Except({"\n"})

\* re.search(r"\. \| (.+)", desc), g1 the group: the leftmost ". | " that a
\* character other than a newline follows, and the rest of that line
DescMarkAt(s, i) ==
    IF StartsAt(s, i, <<".", " ", "|", " ">>) /\ i + 4 <= Len(s) /\ s[i + 4] # "\n"
    THEN [found |-> TRUE, start |-> i,
          g1 |-> SubSeq(s, i + 4, RunEnd(s, i + 4, NotNewline) - 1),
          g2 |-> <<>>, g3 |-> <<>>]
    ELSE NoMatch

extract_description(desc, notes) ==
    LET match == Search([i \in 1..Len(desc) |-> DescMarkAt(desc, i)])
    IN  IF ~match.found THEN join(<<" ">>, notes) ELSE match.g1

\* ------------------------------------------------- determine_extent_form

Contains(s, c) == \E i \in 1..Len(s) : s[i] = c

NoNewline(s, from, to) == \A k \in from..to : s[k] # "\n"

\* where the run of whitespace that ends just before position p starts
\* (p itself when s[p - 1] is no whitespace), never before position low
SpaceRunStart(s, p, low) ==
    LET start == {q \in low..p : \A k \in q..(p - 1) : IsSpace(s[k])}
    IN  Min(start)

\* re.match(r"^(.*?)\s*:\s*(.*?)\s*;\s*(.*)$", s) with the ":" matched at cpos and
\* the ";" at spos: both \s* around each take the whole run of whitespace, the
\* three groups hold no newline ("." matches none), and $ matches at the end or
\* before a last newline
ExtentMatchAt(s, cpos, spos) ==
    LET a == SpaceRunStart(s, cpos, 1)
        c == RunEnd(s, cpos + 1, Space)
        d == SpaceRunStart(s, spos, c)
        f == RunEnd(s, spos + 1, Space)
        last == IF f <= Len(s) /\ s[Len(s)] = "\n" THEN Len(s) - 1 ELSE Len(s)
    IN  IF /\ s[cpos] = ":" /\ s[spos] = ";" /\ cpos < spos
           /\ c <= spos
           /\ NoNewline(s, 1, a - 1)
           /\ NoNewline(s, c, d - 1)
           /\ NoNewline(s, f, last)
        THEN [found |-> TRUE, start |-> 1, g1 |-> SubSeq(s, 1, a - 1),
              g2 |-> SubSeq(s, c, d - 1), g3 |-> SubSeq(s, f, last)]
        ELSE NoMatch

\* the match re.match finds: group 1 is lazy, so the first ":" that allows a match,
\* and group 2 is lazy, so the first ";" after it that does
ExtentMatch(s) ==
    LET hits == {p \in (1..Len(s)) \X (1..Len(s)) :
                   s[p[1]] = ":" /\ s[p[2]] = ";" /\ ExtentMatchAt(s, p[1], p[2]).found}
    IN  IF hits = {} THEN NoMatch
        ELSE LET cpos == Min({p[1] : p \in hits})
                 spos == Min({p[2] : p \in {q \in hits : q[1] = cpos}})
             IN  ExtentMatchAt(s, cpos, spos)

\* s.split(sep): the parts between the occurrences of sep, found left to right
\* without overlap
RECURSIVE split(_, _)
split(s, sep) ==
    LET at == {i \in 1..Len(s) : StartsAt(s, i, sep)}
    IN  IF at = {} THEN <<s>>
        ELSE <<SubSeq(s, 1, Min(at) - 1)>>
             \o split(SubSeq(s, Min(at) + Len(sep), Len(s)), sep)

\* the branch for a text with ":" and ";", given what re.match found
extent_form_of_match(match) ==
    IF ~match.found THEN Raise("AttributeError")
    ELSE Ok(<<join(<<"|">>, <<strip(match.g1), strip(match.g3)>>), strip(match.g2)>>)

\* the branch for a text with ":" only: extent, form = the parts of the split
extent_form_of_parts(parts) ==
    IF Len(parts) # 2 THEN Raise("ValueError")
    ELSE Ok(<<strip(parts[1]), strip(parts[2])>>)

determine_extent_form(container) ==
    IF Len(container) > 1
    THEN Ok(<<join(<<"|">>, [i \in 1..Len(container) |-> strip(container[i])]), <<>>>>)
    ELSE IF Len(container) = 0 THEN Raise("IndexError")
    ELSE IF Contains(container[1], ":") /\ Contains(container[1], ";")
    THEN extent_form_of_match(ExtentMatch(container[1]))
    ELSE IF Contains(container[1], ":")
    THEN extent_form_of_parts(split(container[1], <<" ", ":", " ">>))
    ELSE Ok(<<strip(container[1]), <<>>>>)

\* ------------------------------------------------------- clean_html_text

\* the tags deleted with nothing put in their place
RECURSIVE TagsDropped(_, _)
TagsDropped(s, i) ==
    IF i > Len(s) THEN <<>>
    ELSE LET close == {j \in (i + 1)..Len(s) : s[j] = ">"}
         IN  IF s[i] = "<" /\ close # {} /\ Min(close) >= i + 2
             THEN TagsDropped(s, Min(close) + 1)
             ELSE <<s[i]>> \o TagsDropped(s, i + 1)

\* re.sub(r"<[^>]+>", " ", s) from position i on: a "<" with a ">" after it and at
\* least one character between them is replaced, up to the first such ">"
RECURSIVE TagsToSpace(_, _)
TagsToSpace(s, i) ==
    IF i > Len(s) THEN <<>>
    ELSE LET close == {j \in (i + 1)..Len(s) : s[j] = ">"}
         IN  IF s[i] = "<" /\ close # {} /\ Min(close) >= i + 2
             THEN <<" ">> \o TagsToSpace(s, Min(close) + 1)
             ELSE <<s[i]>> \o TagsToSpace(s, i + 1)

\* the named character references of html.entities.html5 that the alphabet can
\* spell, each with the character it stands for; the names that HTML allows
\* without the semicolon are there both ways
html5 ==
    {<<<<"a","m","p",";">>, "&">>, <<<<"a","m","p">>, "&">>,
     <<<<"l","t",";">>, "<">>, <<<<"l","t">>, "<">>,
     <<<<"g","t",";">>, ">">>, <<<<"g","t">>, ">">>,
     <<<<"n","b","s","p",";">>, NBSP>>, <<<<"n","b","s","p">>, NBSP>>}

\* [^\t\n\f <&#;]
RefChar == Except({"\t", "\n", " ", "<", "&", "#", ";"})

\* the longest the name of a character reference may be
MaxRefLen == 32

\* html.unescape(s) from position i on: after "&", up to MaxRefLen name characters
\* and an optional ";" are the reference; when it is no name of html5, the longest
\* proper prefix of at least two characters that is one is replaced
RECURSIVE unescape(_, _)
unescape(s, i) ==
    IF i > Len(s) THEN <<>>
    ELSE IF s[i] # "&" THEN <<s[i]>> \o unescape(s, i + 1)
    ELSE LET run == Min({RunEnd(s, i + 1, RefChar), i + 1 + MaxRefLen})
             end == IF run <= Len(s) /\ s[run] = ";" THEN run + 1 ELSE run
             ref == SubSeq(s, i + 1, end - 1)
             known == {x \in 2..(Len(ref) - 1) :
                         \E e \in html5 : e[1] = SubSeq(ref, 1, x)}
         IN  IF run = i + 1 THEN <<"&">> \o unescape(s, i + 1)
             ELSE IF \E e \in html5 : e[1] = ref
             THEN <<(CHOOSE e \in html5 : e[1] = ref)[2]>> \o unescape(s, end)
             ELSE IF known # {}
             THEN <<(CHOOSE e \in html5 : e[1] = SubSeq(ref, 1, Max(known)))[2]>>
                  \o unescape(s, i + 1 + Max(known))
             ELSE <<"&">> \o unescape(s, i + 1)

\* re.sub(r"\s+", " ", s) from position i on
RECURSIVE CollapseSpace(_, _)
CollapseSpace(s, i) ==
    IF i > Len(s) THEN <<>>
    ELSE IF IsSpace(s[i]) THEN <<" ">> \o CollapseSpace(s, RunEnd(s, i, Space))
    ELSE <<s[i]>> \o CollapseSpace(s, i + 1)

clean_html_text(html_text) ==
    IF html_text = <<>> THEN <<>>
    ELSE LET no_tags == TagsToSpace(html_text[1], 1)
             decoded_text == unescape(no_tags, 1)
         IN  strip(CollapseSpace(decoded_text, 1))

\* ------------------------------------------------------------------ main

\* a JSON value that is an object, with its members, or any other JSON value
Dict(m) == [t |-> "dict", m |-> m]

NotDict == [t |-> "other", m |-> <<>>]

EmptyMap == <<>>

\* a dict with no key, which "if data:" takes for false
IsEmpty(m) == DOMAIN m = {}

\* dict.get(key, default)
get(d, key, default) == IF key \in DOMAIN d THEN d[key] ELSE default

\* dict.get(key) or other
get_or(d, key, other) == IF key \in DOMAIN d /\ d[key] # <<>> THEN d[key] ELSE other

\* date.today().strftime("%Y-%m-%d"), taken once per run
td == <<"2","0","2","6","-","1","1","-","0","3">>

\* "../" and the last three parts of a path in item-metadata, but for the file's name
SourceDir == <<".",".","/","c","o","l","l","e","c","t","i","o","n","-","d","a","t","a","/","i","t","e","m","-","m","e","t","a","d","a","t","a","/">>

RightsFallback ==
    <<"S","e","e"," ","A","c","c","e","s","s"," ","C","o","n","d","i","t","i",
      "o","n"," ","o","r"," ","i","t","e","m"," ","s","o","u","r","c","e"," ",
      "f","o","r"," ","r","i","g","h","t","s"," ","i","n","f","o","r","m","a",
      "t","i","o","n",".">>

\* the keys of data_dict in the order main sets them
Columns ==
    <<"item_type", "date_uploaded", "source_file", "dcterms:title",
      "dcterms:created", "dcterms:description", "dcterms:contributor",
      "dcterms:identifier:controlNumber", "mods:locationUrl", "mods:mediaType",
      "mods:physicalExtent", "mods:physicalForm", "dcterms:subject",
      "dcterms:language", "mods:accessCondition", "dcterms:rights">>

\* the body of "if data:", given what the three parsers made of created_published,
\* medium and rights: data_dict, or the first exception raised on the way
row_of(data, name, created, ext_form, rights) ==
    LET description == get(data, "description", <<<<>>>>)
        deep_data == get(data, "item", Dict(EmptyMap))
        subjects == get(data, "subject_headings", <<<<>>>>)
        language == get(data, "language", <<<<>>>>)
    IN  IF ~created.ok THEN created
        ELSE IF description = <<>> THEN Raise("IndexError")
        ELSE IF deep_data.t # "dict" THEN Raise("AttributeError")
        ELSE IF ~ext_form.ok THEN ext_form
        ELSE IF language = <<>> THEN Raise("IndexError")
        ELSE Ok([c \in Range(Columns) |->
               CASE c = "item_type" -> <<"I", "t", "e", "m">>
                 [] c = "date_uploaded" -> td
                 [] c = "source_file" -> SourceDir \o name
                 [] c = "dcterms:title" -> get(data, "title", <<>>)
                 [] c = "dcterms:created" -> created.val
                 [] c = "dcterms:description" ->
                        extract_description(description[1],
                                            get(data, "notes", <<<<>>>>))
                 [] c = "dcterms:contributor" ->
                        join(<<"|">>, get(data, "contributor_names", <<<<>>>>))
                 [] c = "dcterms:identifier:controlNumber" ->
                        get_or(deep_data.m, "control_number",
                               get(data, "library_of_congress_control_number", <<>>))
                 [] c = "mods:locationUrl" -> get(data, "link", <<>>)
                 [] c = "mods:mediaType" ->
                        join(<<"|">>, get(data, "mime_type", <<<<>>>>))
                 [] c = "mods:physicalExtent" -> ext_form.val[1]
                 [] c = "mods:physicalForm" -> ext_form.val[2]
                 [] c = "dcterms:subject" ->
                        join(<<"|">>, [i \in 1..Len(subjects) |-> strip(subjects[i])])
                 [] c = "dcterms:language" -> language[1]
                 [] c = "mods:accessCondition" ->
                        get_or(data, "rights_advisory",
                               get(data, "rights_information", <<>>))
                 [] c = "dcterms:rights" ->
                        IF rights # <<>> THEN rights ELSE RightsFallback])

build_row(data, name) ==
    row_of(data, name,
           extract_dates(get(data, "created_published", <<StrFrag(<<>>)>>)),
           determine_extent_form(get(data, "medium", <<<<>>>>)),
           clean_html_text(get(data, "rights", <<>>)))

\* the body of the loop's try for one file: the data_dict that is appended to
\* data_list, or the exception that is counted.  A file is [name, readable, doc]:
\* readable when read_text and json.loads succeed, doc the JSON value then
process_file(file) ==
    IF ~file.readable THEN Raise("JSONDecodeError")
    ELSE IF file.doc.t # "dict" THEN Raise("AttributeError")
    ELSE LET data == get(file.doc.m, "item", Dict(EmptyMap))
         IN  IF data.t # "dict" THEN Raise("AttributeError")
             ELSE IF IsEmpty(data.m) THEN Ok(EmptyMap)
             ELSE build_row(data.m, file.name)

\* what the lines of the CSV file are: a header of field names or a row of cells,
\* or a line left by an earlier run
HeaderLine(fieldnames) == [kind |-> "header", keys |-> fieldnames, cells |-> <<>>]

RowLine(cells) == [kind |-> "row", keys |-> <<>>, cells |-> cells]

OldLine == [kind |-> "old", keys |-> <<>>, cells |-> <<>>]

NoFile == [exists |-> FALSE, lines |-> <<>>]

FileOf(lines) == [exists |-> TRUE, lines |-> lines]

\* data_list[0].keys(): all the columns, or none for an empty data_dict
fieldnames == IF IsEmpty(data_list[1]) THEN <<>> ELSE Columns

\* an except that lets the failure pass without counting it
CollectUncounted(r) ==
    IF r.ok
    THEN data_list' = Append(data_list, r.val) /\ UNCHANGED file_open_error
    ELSE UNCHANGED <<data_list, file_open_error>>

\* data_list.append(data_dict) at the end of the try, or the except's count
Collect(r) ==
    IF r.ok
    THEN data_list' = Append(data_list, r.val) /\ UNCHANGED file_open_error
    ELSE file_open_error' = file_open_error + 1 /\ UNCHANGED data_list

\* one pass of "for i in METADATA.iterdir()": the try and its except
ProcessFile ==
    /\ pc = "loop"
    /\ idx < Len(files)
    /\ Collect(process_file(files[idx + 1]))
    /\ idx' = idx + 1
    /\ UNCHANGED <<pc, arg, ret, files, csv_file, csv_before>>

\* open(..., "w"), DictWriter(f, fieldnames=data_list[0].keys()) and writeheader():
\* open may fail and leave the file alone; once it has truncated the file,
\* data_list[0] raises IndexError on an empty list
OpenCsv ==
    /\ pc = "loop"
    /\ idx = Len(files)
    /\ \E io_error \in BOOLEAN :
         IF io_error
         THEN pc' = "save_error" /\ UNCHANGED csv_file
         ELSE IF data_list = <<>>
         THEN pc' = "save_error" /\ csv_file' = FileOf(<<>>)
         ELSE pc' = "rows" /\ csv_file' = FileOf(<<HeaderLine(fieldnames)>>)
    /\ UNCHANGED <<arg, ret, files, idx, data_list, file_open_error, csv_before>>

\* writer.writerow(row) for the next row: ValueError when the row has a key that
\* is no field name, else the cells in the order of the field names, "" for a
\* missing one; the write itself may fail
WriteRow ==
    /\ pc = "rows"
    /\ Len(csv_file.lines) - 1 < Len(data_list)
    /\ LET row == data_list[Len(csv_file.lines)]
       IN  \E io_error \in BOOLEAN :
             IF io_error \/ ~(DOMAIN row \subseteq Range(fieldnames))
             THEN pc' = "save_error" /\ UNCHANGED csv_file
             ELSE /\ csv_file' = FileOf(Append(csv_file.lines,
                        RowLine([k \in 1..Len(fieldnames) |->
                                    get(row, fieldnames[k], <<>>)])))
                  /\ UNCHANGED pc
    /\ UNCHANGED <<arg, ret, files, idx, data_list, file_open_error, csv_before>>

\* the end of the with block after the last row, and main's return
CloseCsv ==
    /\ pc = "rows"
    /\ Len(csv_file.lines) - 1 = Len(data_list)
    /\ pc' = "saved"
    /\ UNCHANGED <<arg, ret, main_vars>>

\* ------------------------------------------------------------ the inputs

\* how many tokens a generated text is made of, at most
MaxTokens == 3

\* how many elements a generated container has, at most
MaxFragments == 3

Years == {<<"1","9","0","0">>, <<"1","9","0","5">>, <<"0","0","1","2">>}

Abbreviations ==
    <<<<"j","a","n">>,
      <<"f","e","b">>,
      <<"m","a","r">>,
      <<"a","p","r">>,
      <<"m","a","y">>,
      <<"j","u","n">>,
      <<"j","u","l">>,
      <<"a","u","g">>,
      <<"s","e","p">>,
      <<"o","c","t">>,
      <<"n","o","v">>,
      <<"d","e","c">>>>

FullNames ==
    <<<<"j","a","n","u","a","r","y">>,
      <<"f","e","b","r","u","a","r","y">>,
      <<"m","a","r","c","h">>,
      <<"a","p","r","i","l">>,
      <<"m","a","y">>,
      <<"j","u","n","e">>,
      <<"j","u","l","y">>,
      <<"a","u","g","u","s","t">>,
      <<"s","e","p","t","e","m","b","e","r">>,
      <<"o","c","t","o","b","e","r">>,
      <<"n","o","v","e","m","b","e","r">>,
      <<"d","e","c","e","m","b","e","r">>>>

Sept == <<"s","e","p","t">>

\* the month tokens in lower case, each with its month's number: the twelve
\* abbreviations, sept, each of these with a trailing period, and the full names
MonthTokens ==
    UNION {{[tok |-> Abbreviations[n], num |-> n],
            [tok |-> Abbreviations[n] \o <<".">>, num |-> n],
            [tok |-> FullNames[n], num |-> n]} : n \in 1..12}
    \cup {[tok |-> Sept, num |-> 9], [tok |-> Sept \o <<".">>, num |-> 9]}

\* "sept" -> "Sept"
Capitalized(s) == IF s = <<>> THEN s ELSE <<UpperChar(s[1])>> \o Tail(s)

Cases(s) == {s, upper(s), Capitalized(s)}

\* "M Y" and "Y M" for every month token M, in three letter cases, and year Y
MonthTexts ==
    UNION {UNION {{c \o <<" ">> \o y, y \o <<" ">> \o c} : c \in Cases(m.tok)}
           : <<m, y>> \in MonthTokens \X Years}

\* a year and a word that is no month, and a month that follows other words
OtherWordTexts ==
    {<<"1","9","4","1"," ","x","y","z">>, <<"e","a","s","t","e","r"," ","1","9","4","1">>, <<"p","r","i","n","t","e","d"," ","s","e","p","t","."," ","1","9","4","1">>, <<"1","9","4","1",","," ","S","u","m","m","e","r">>}

Between == <<"b","e","t","w","e","e","n"," ">>

\* the ways two years are joined into a range
Joiners == {<<" ","a","n","d"," ">>, <<"-">>, <<" ","t","o"," ">>, <<" ","-"," ">>, <<" ","a","n","d","/","o","r"," ">>}

\* Y1 and Y2 joined, with and without a leading "between "
RangeTexts ==
    UNION {{y1 \o j \o y2, Between \o y1 \o j \o y2}
           : <<y1, j, y2>> \in Years \X Joiners \X Years}

Months2 == {<<"0","9">>, <<"1","2">>, <<"0","0">>}

Days2 == {<<"0","5">>, <<"3","1">>, <<"0","0">>}

\* the five forms extract_dates can return
CanonicalTexts ==
    {<<>>} \cup Years
    \cup {y \o <<"-">> \o m : <<y, m>> \in Years \X Months2}
    \cup {y \o <<"-">> \o m \o <<"-">> \o d : <<y, m, d>> \in Years \X Months2 \X Days2}
    \cup {y1 \o <<"/">> \o y2 : <<y1, y2>> \in Years \X Years}

\* full dates with each separator, the month and the day of one digit or two
FullDateTexts ==
    {y \o <<a>> \o m \o <<b>> \o d :
       <<y, a, m, b, d>> \in Years \X {".", "/", "-", " "} \X {<<"9">>, <<"1","2">>}
                             \X {"-", "."} \X {<<"5">>, <<"3","1">>}}

\* approximate dates
CircaTexts ==
    {<<"c","i","r","c","a"," ","1","9","2","0">>, <<"[","1","9","2","?","]">>, <<"c","a","."," ","1","9","2","0">>, <<"c","."," ","1","9","2","0">>,
     <<"[","1","9","2","0","?","]">>, <<"(","c","a"," ","1","9","2","0",")">>}

DateTokens ==
    {<<"1","9","4","1">>,
     <<"1","9","0","5">>,
     <<"9">>,
     <<"1","2">>,
     <<"-">>,
     <<"/">>,
     <<" ">>,
     <<".">>,
     <<"a","n","d">>,
     <<"s","e","p","t">>,
     <<"c">>,
     <<"?">>}

\* the texts made of at most n tokens
RECURSIVE TokenTexts(_, _)
TokenTexts(tokens, n) ==
    IF n = 0 THEN {<<>>}
    ELSE LET shorter == TokenTexts(tokens, n - 1)
         IN  shorter \cup {s \o t : <<s, t>> \in shorter \X tokens}

DateTexts ==
    CanonicalTexts \cup FullDateTexts \cup RangeTexts \cup MonthTexts \cup OtherWordTexts
    \cup CircaTexts \cup TokenTexts(DateTokens, MaxTokens)

\* what a container may hold besides one text
Fragments ==
    {StrFrag(<<"1","9","4","1">>), StrFrag(<<"x">>), ListFrag(<<>>),
     ListFrag(<<<<"1","9","0","5">>>>), ListFrag(<<<<"s","e","p","t"," ","1","9","4","1">>, <<"1","9","0","0">>>>)}

\* the containers of at most n fragments
RECURSIVE FragmentLists(_)
FragmentLists(n) ==
    IF n = 0 THEN {<<>>}
    ELSE LET shorter == FragmentLists(n - 1)
         IN  shorter \cup {Append(c, f) : <<c, f>> \in shorter \X Fragments}

DateContainers == {<<StrFrag(s)>> : s \in DateTexts} \cup FragmentLists(MaxFragments)

\* how many tokens a generated extent text is made of, at most
MaxExtentTokens == 5

ExtentTokens ==
    {<<"a">>,
     <<"b">>,
     <<":">>,
     <<";">>,
     <<" ",":"," ">>,
     <<" ">>,
     <<"\n">>}

\* the examples of the docstring's four cases
ExtentExamples ==
    {<<"2","4"," ","x"," ","3","6"," ","c","m"," ",":"," ","c","o","l","o","r"," ",";"," ","m","o","u","n","t","e","d"," ","o","n"," ","b","o","a","r","d">>,
     <<"2","4"," ","x"," ","3","6"," ","c","m"," ",":"," ","c","o","l","o","r">>,
     <<"2","4"," ","x"," ","3","6"," ","c","m">>}

ExtentTexts == ExtentExamples \cup TokenTexts(ExtentTokens, MaxExtentTokens)

\* every list of one text, and the lists of no text and of two and three
ExtentContainers ==
    {<<s>> : s \in ExtentTexts}
    \cup {<<>>}
    \cup {<<s, t>> : <<s, t>> \in TokenTexts(ExtentTokens, 1) \X ExtentExamples}
    \cup {<<s, t, s>> : <<s, t>> \in ExtentExamples \X TokenTexts(ExtentTokens, 1)}

HtmlTokens ==
    {<<"<","p",">">>,
     <<"<","/","p",">">>,
     <<"<">>,
     <<">">>,
     <<"H","e","l","l","o">>,
     <<"x">>,
     <<"&","n","b","s","p",";">>,
     <<"&","a","m","p",";">>,
     <<"&","l","t",";">>,
     <<"&","g","t",";">>,
     <<" ">>,
     <<"\n">>}

HtmlExamples ==
    {<<"<","p",">","H","e","l","l","o","&","n","b","s","p",";","W","o","r","l","d","<","/","p",">">>,
     <<"H","e","l","<","b",">","l","o","<","/","b",">">>,
     <<"a","\t","\n"," ","b"," ","&","a","m","p",";"," ","c">>}

HtmlTexts == HtmlExamples \cup TokenTexts(HtmlTokens, MaxTokens)

\* every list of one text, the empty list, and lists whose first text is followed
\* by another
HtmlContainers ==
    {<<s>> : s \in HtmlTexts}
    \cup {<<>>}
    \cup {<<s, t>> : <<s, t>> \in HtmlExamples \X HtmlExamples}

\* how many files the directory holds, at most
MaxFiles == 3

File(name, readable, doc) == [name |-> name, readable |-> readable, doc |-> doc]

\* a file that is no JSON, and one whose JSON is a list
BadJsonFile == File(<<"b","a","d",".","j","s","o","n">>, FALSE, NotDict)

ListFile == File(<<"l","i","s","t",".","j","s","o","n">>, TRUE, NotDict)

\* {} and {"item": {}}
NoItemFile == File(<<"n","o","i","t","e","m",".","j","s","o","n">>, TRUE, Dict(EmptyMap))

EmptyItemFile == File(<<"e","m","p","t","y",".","j","s","o","n">>, TRUE, Dict([item |-> Dict(EmptyMap)]))

\* {"item": "x"}
ScalarItemFile == File(<<"s","c","a","l","a","r",".","j","s","o","n">>, TRUE, Dict([item |-> NotDict]))

\* {"item": {"id": "x"}} and {"item": {"item": {}}}: an item with none of the
\* fields main reads
OtherKeyFile == File(<<"o","t","h","e","r",".","j","s","o","n">>, TRUE, Dict([item |-> Dict([id |-> <<"x">>])]))

NestedOnlyFile ==
    File(<<"n","e","s","t","e","d",".","j","s","o","n">>, TRUE, Dict([item |-> Dict([item |-> Dict(EmptyMap)])]))

\* an item with every field
FullFile ==
    File(<<"f","u","l","l",".","j","s","o","n">>, TRUE, Dict([item |-> Dict(
        [title |-> <<"M","a","p">>,
         created_published |-> <<StrFrag(<<"S","e","p","t","."," ","1","9","4","1">>)>>,
         description |-> <<<<"A"," ","m","a","p","."," ","|"," ","O","f"," ","x",".">>>>,
         notes |-> <<<<"n","1">>, <<"n","2">>>>,
         contributor_names |-> <<<<"A">>, <<"B">>>>,
         item |-> Dict([control_number |-> <<"7","7">>]),
         library_of_congress_control_number |-> <<"8","8">>,
         link |-> <<"h","t","t","p",":","/","/","x">>,
         mime_type |-> <<<<"i","m","a","g","e","/","g","i","f">>, <<"i","m","a","g","e","/","t","i","f","f">>>>,
         medium |-> <<<<"1"," ","m","a","p"," ",":"," ","c","o","l","."," ",";"," ","2","4"," ","c","m">>>>,
         subject_headings |-> <<<<" ","s","1"," ">>, <<"s","2">>>>,
         language |-> <<<<"e","n","g">>>>,
         rights_advisory |-> <<"a","d","v">>,
         rights_information |-> <<"i","n","f","o">>,
         rights |-> <<<<"<","p",">","N","o","&","n","b","s","p",";","k","n","o","w","n","<","/","p",">">>>>])]))

\* created_published of two plain strings, and a medium with ":" but no " : "
TwoDatesFile ==
    File(<<"t","w","o",".","j","s","o","n">>, TRUE, Dict([item |-> Dict(
        [title |-> <<"T">>,
         created_published |-> <<StrFrag(<<"1","9","0","0">>), StrFrag(<<"1","9","0","5">>)>>])]))

BadMediumFile ==
    File(<<"m","e","d","i","u","m",".","j","s","o","n">>, TRUE, Dict([item |-> Dict(
        [title |-> <<"T">>, medium |-> <<<<"1"," ","m","a","p",":","c","o","l",".">>>>])]))

Directory ==
    <<BadJsonFile, ListFile, NoItemFile, ScalarItemFile, EmptyItemFile, OtherKeyFile,
      NestedOnlyFile,
      FullFile, TwoDatesFile, BadMediumFile>>

\* the orders in which iterdir() may yield at most n files of the directory, each
\* file by its place in Directory
RECURSIVE Orders(_)
Orders(n) ==
    IF n = 0 THEN {<<>>}
    ELSE LET shorter == Orders(n - 1)
         IN  shorter \cup {Append(q[1], q[2]) :
                             q \in {r \in shorter \X DOMAIN Directory :
                                      r[2] \notin Range(r[1])}}

\* ------------------------------------------------------ the specifications

\* main's variables while a parser is called on its own
MainIdle ==
    /\ files = <<>>
    /\ idx = 0
    /\ data_list = <<>>
    /\ file_open_error = 0
    /\ csv_file = NoFile
    /\ csv_before = NoFile

\* one call of extract_dates
InitDates ==
    /\ pc = "extract_dates"
    /\ arg \in DateContainers
    /\ ret = NoRet
    /\ MainIdle

ExtractDates ==
    /\ pc = "extract_dates"
    /\ ret' = extract_dates(arg)
    /\ pc' = "returned"
    /\ UNCHANGED <<arg, main_vars>>

NextDates == ExtractDates

SpecDates == InitDates /\ [][NextDates]_vars

\* one call of determine_extent_form
InitExtent ==
    /\ pc = "determine_extent_form"
    /\ arg \in ExtentContainers
    /\ ret = NoRet
    /\ MainIdle

DetermineExtentForm ==
    /\ pc = "determine_extent_form"
    /\ ret' = determine_extent_form(arg)
    /\ pc' = "returned"
    /\ UNCHANGED <<arg, main_vars>>

NextExtent == DetermineExtentForm

SpecExtent == InitExtent /\ [][NextExtent]_vars

\* one call of clean_html_text
InitHtml ==
    /\ pc = "clean_html_text"
    /\ arg \in HtmlContainers
    /\ ret = NoRet
    /\ MainIdle

CleanHtmlText ==
    /\ pc = "clean_html_text"
    /\ ret' = Ok(clean_html_text(arg))
    /\ pc' = "returned"
    /\ UNCHANGED <<arg, main_vars>>

NextHtml == CleanHtmlText

SpecHtml == InitHtml /\ [][NextHtml]_vars

\* main: the loop over the directory, then the CSV file
Init ==
    /\ pc = "loop"
    /\ arg = <<>>
    /\ ret = NoRet
    /\ \E order \in Orders(MaxFiles) :
         files = [i \in 1..Len(order) |-> Directory[order[i]]]
    /\ idx = 0
    /\ data_list = <<>>
    /\ file_open_error = 0
    /\ csv_before \in {NoFile, FileOf(<<OldLine>>)}
    /\ csv_file = csv_before

Next == ProcessFile \/ OpenCsv \/ WriteRow \/ CloseCsv

Spec == Init /\ [][Next]_vars

\* the orders in which iterdir() may yield n files a second time
Reorderings(n) == {p \in [1..n -> 1..n] : \A i, j \in 1..n : p[i] = p[j] => i = j}

\* the rows are such that the write fails whatever the disk does: data_list[0] of
\* an empty list, or a row with a key that is no field name
Unwritable ==
    \/ data_list = <<>>
    \/ \E i \in 1..Len(data_list) : ~(DOMAIN data_list[i] \subseteq Range(fieldnames))

\* main has ended with an error saving the file that its rows do not account for
IoFailed == pc = "save_error" /\ ~Unwritable

\* main run once more over the same files, which iterdir() may yield in another
\* order; ret keeps what the run before made of them
Rerun ==
    /\ pc \in {"saved", "save_error"}
    /\ ~ret.ok
    /\ ret' = Ok([rows |-> data_list, errors |-> file_open_error,
                  written |-> pc = "saved", io |-> IoFailed])
    /\ \E order \in Reorderings(Len(files)) :
         files' = [i \in 1..Len(files) |-> files[order[i]]]
    /\ pc' = "loop"
    /\ idx' = 0
    /\ data_list' = <<>>
    /\ file_open_error' = 0
    /\ csv_before' = csv_file
    /\ UNCHANGED <<arg, csv_file>>

NextRerun == Next \/ Rerun

SpecRerun == Init /\ [][NextRerun]_vars

\* ------------------------------------------------------------ the claims

AllDigits(s) == \A i \in 1..Len(s) : IsDigit(s[i])

\* "", YYYY, YYYY-MM, YYYY-MM-DD or YYYY/YYYY
IsDateShape(s) ==
    \/ s = <<>>
    \/ Len(s) = 4 /\ AllDigits(s)
    \/ Len(s) = 7 /\ AllDigits(SubSeq(s, 1, 4)) /\ s[5] = "-" /\ AllDigits(SubSeq(s, 6, 7))
    \/ /\ Len(s) = 10 /\ AllDigits(SubSeq(s, 1, 4)) /\ s[5] = "-"
       /\ AllDigits(SubSeq(s, 6, 7)) /\ s[8] = "-" /\ AllDigits(SubSeq(s, 9, 10))
    \/ Len(s) = 9 /\ AllDigits(SubSeq(s, 1, 4)) /\ s[5] = "/" /\ AllDigits(SubSeq(s, 6, 9))

\* C1: whenever extract_dates returns, what it returns is "", YYYY, YYYY-MM,
\* YYYY-MM-DD (month and day of two digits) or YYYY/YYYY.
C1_DateShape == (pc = "returned" /\ ret.ok) => IsDateShape(ret.val)

\* a full date with one-digit month and day was given and came back zero-padded
C1_Witness ==
    /\ pc = "returned"
    /\ arg = <<StrFrag(<<"1","9","0","0",".","9","-","5">>)>>
    /\ ret = Ok(<<"1","9","0","0","-","0","9","-","0","5">>)

\* C2: extract_dates never raises: for every container, whatever its length and
\* whether or not a nested list is among its elements, it returns a string.
C2_NeverRaises == pc = "returned" => ret.ok

\* the joiners of the claim's examples: " and ", "-" and " to "
ClaimedJoiners == {<<" ","a","n","d"," ">>, <<"-">>, <<" ","t","o"," ">>}

\* C5: for all years Y1 and Y2, joined by and, - or to, with or without a leading
\* "between", extract_dates returns Y1/Y2.
C5_YearRange ==
    \A y1 \in Years, y2 \in Years, j \in ClaimedJoiners, b \in {<<>>, Between} :
        (pc = "returned" /\ arg = <<StrFrag(b \o y1 \o j \o y2)>>)
            => ret = Ok(y1 \o <<"/">> \o y2)

\* C6: for every year Y and every month token M, in any letter case, extract_dates
\* returns Y-MM for "M Y" and for "Y M", MM the two-digit number of the month.
C6_YearMonth ==
    \A m \in MonthTokens, y \in Years :
        \A c \in Cases(m.tok) :
            (/\ pc = "returned"
             /\ arg \in {<<StrFrag(c \o <<" ">> \o y)>>, <<StrFrag(y \o <<" ">> \o c)>>})
                => ret = Ok(y \o <<"-">> \o Format(m.num, 2))

\* C7 as claimed: for every string s of a form extract_dates can return,
\* extract_dates([s]) returns s.
C7_Idempotent ==
    \A s \in CanonicalTexts :
        (pc = "returned" /\ arg = <<StrFrag(s)>>) => ret = Ok(s)

\* C7 as amended: extract_dates([s]) returns s for s of the forms "", YYYY and
\* YYYY-MM-DD; for s of the forms YYYY-MM and YYYY/YYYY it returns the leading
\* YYYY alone.
C7_IdempotentButYearOnly ==
    \A s \in CanonicalTexts :
        (pc = "returned" /\ arg = <<StrFrag(s)>>)
            => ret = Ok(IF Len(s) \in {7, 9} THEN SubSeq(s, 1, 4) ELSE s)

\* a year range was given back to extract_dates and only its first year returned
C7_Witness ==
    /\ pc = "returned"
    /\ arg = <<StrFrag(<<"1","9","0","0","/","1","9","0","5">>)>>
    /\ ret = Ok(<<"1","9","0","0">>)

\* C8: for every non-empty container, determine_extent_form returns a pair of
\* strings, neither with leading or trailing whitespace, and does not raise.
C8_ExtentFormTotal ==
    (pc = "returned" /\ arg # <<>>)
        => /\ ret.ok
           /\ Len(ret.val) = 2
           /\ \A i \in 1..2 : strip(ret.val[i]) = ret.val[i]

\* The reading of a text the claim about clean_html_text describes, position by
\* position: which positions of the text are kept, and what stands at each.

\* the n-th smallest member of a set of positions
Nth(keep, n) == CHOOSE k \in keep : Cardinality({j \in keep : j <= k}) = n

\* the characters sub gives for the positions kept, in their order
Rewrite(keep, sub) == [n \in 1..Cardinality(keep) |-> sub[Nth(keep, n)]]

\* where the tag that opens at i closes: at the first ">" after i, when something
\* stands between the two; 0 when no tag opens at i
TagClose(s, i) ==
    LET closes == {j \in (i + 1)..Len(s) : s[j] = ">"}
    IN  IF s[i] = "<" /\ closes # {} /\ Min(closes) >= i + 2 THEN Min(closes) ELSE 0

\* the positions where a tag opens: outside every tag that opens before
TagOpens(s) ==
    {i \in 1..Len(s) :
        /\ TagClose(s, i) # 0
        /\ \A h \in 1..(i - 1) : TagClose(s, h) < i}

\* the positions of a tag after the one where it opens
InTag(s) == {k \in 1..Len(s) : \E i \in TagOpens(s) : i < k /\ k <= TagClose(s, i)}

\* every tag removed, nothing put in its place
TagsDeleted(s) == Rewrite((1..Len(s)) \ (TagOpens(s) \cup InTag(s)), s)

\* every tag replaced by one space
TagsSpaced(s) ==
    Rewrite((1..Len(s)) \ InTag(s),
            [k \in 1..Len(s) |-> IF k \in TagOpens(s) THEN " " ELSE s[k]])

Entities ==
    {<<<<"&","a","m","p",";">>, "&">>, <<<<"&","l","t",";">>, "<">>, <<<<"&","g","t",";">>, ">">>, <<<<"&","n","b","s","p",";">>, NBSP>>}

EntitiesAt(s, i) == {e \in Entities : StartsAt(s, i, e[1])}

\* every entity replaced by the character it names
EntitiesDecoded(s) ==
    LET opens == {i \in 1..Len(s) : EntitiesAt(s, i) # {}}
        inside == {k \in 1..Len(s) :
                     \E i \in opens : \E e \in EntitiesAt(s, i) :
                        i < k /\ k < i + Len(e[1])}
    IN  Rewrite((1..Len(s)) \ inside,
                [k \in 1..Len(s) |->
                    IF k \in opens THEN (CHOOSE e \in EntitiesAt(s, k) : TRUE)[2]
                    ELSE s[k]])

\* every run of whitespace between two words made one space, and the whitespace
\* before the first word and after the last one dropped
SpacesCollapsed(s) ==
    LET words == {k \in 1..Len(s) : ~IsSpace(s[k])}
        gaps == {k \in 2..Len(s) :
                   /\ IsSpace(s[k])
                   /\ k - 1 \in words
                   /\ \E j \in words : j > k}
    IN  Rewrite(words \cup gaps,
                [k \in 1..Len(s) |-> IF k \in words THEN s[k] ELSE " "])

Malformed(file) ==
    \/ ~file.readable
    \/ file.doc.t # "dict"
    \/ "item" \notin DOMAIN file.doc.m
    \/ file.doc.m.item.t # "dict"

\* C3: a malformed file adds no row to data_list and adds one to the error
\* counter.
C3_MalformedSkipped ==
    [][(/\ pc = "loop"
        /\ idx < Len(files)
        /\ idx' = idx + 1
        /\ Malformed(files[idx + 1]))
           => /\ Len(data_list') = Len(data_list)
              /\ file_open_error' = file_open_error + 1]_vars

\* the keys of an item that main reads
OptionalKeys ==
    {"title", "created_published", "description", "notes", "contributor_names",
     "library_of_congress_control_number", "link", "mime_type", "medium",
     "subject_headings", "language", "rights_advisory", "rights_information",
     "rights"}

\* a file whose item is a mapping with none of the optional fields, with or without
\* a nested item mapping, that one without a control number
AllOptionalAbsent(file) ==
    /\ ~Malformed(file)
    /\ LET data == file.doc.m.item.m
       IN  /\ DOMAIN data \cap OptionalKeys = {}
           /\ "item" \in DOMAIN data
                => data.item.t = "dict" /\ "control_number" \notin DOMAIN data.item.m

\* the row of a record without optional fields: the three constant columns, the
\* fallback sentence for the rights, and the empty string everywhere else
BlankRow(file) ==
    [c \in Range(Columns) |->
        CASE c = "item_type" -> <<"I", "t", "e", "m">>
          [] c = "date_uploaded" -> td
          [] c = "source_file" -> SourceDir \o file.name
          [] c = "dcterms:rights" -> RightsFallback
          [] OTHER -> <<>>]

\* C4: a record with every optional field absent, its item mapping empty or not,
\* raises nothing and adds to data_list a row with all sixteen columns, the
\* derived ones empty and the rights the fallback sentence.
C4_BlankRow ==
    [][(/\ pc = "loop"
        /\ idx < Len(files)
        /\ idx' = idx + 1
        /\ AllOptionalAbsent(files[idx + 1]))
           => /\ file_open_error' = file_open_error
              /\ Len(data_list') = Len(data_list) + 1
              /\ LET row == data_list'[Len(data_list')]
                 IN  /\ DOMAIN row = Range(Columns)
                     /\ \A c \in Range(Columns) : row[c] = BlankRow(files[idx + 1])[c]]_vars

\* C9: when the write has failed the CSV file is as it was before the run, and
\* when it has not the file holds the header and every row.
C9_AllOrNothing ==
    /\ pc = "save_error" => csv_file = csv_before
    /\ pc = "saved" => csv_file.exists /\ Len(csv_file.lines) = Len(data_list) + 1

\* C13: after each file the rows of data_list and the errors counted add up to the
\* files processed so far, and each file either adds exactly one row or adds one
\* to the counter, never both and never neither.
C13_Accounting ==
    /\ [](Len(data_list) + file_open_error = idx)
    /\ [][idx' # idx =>
            \/ /\ Len(data_list') = Len(data_list) + 1
               /\ file_open_error' = file_open_error
            \/ /\ Len(data_list') = Len(data_list)
               /\ file_open_error' = file_open_error + 1]_vars

\* three files are through the loop, some of them rows and some of them errors
C13_Witness ==
    /\ pc = "loop"
    /\ idx = 3
    /\ Len(data_list) = 2
    /\ file_open_error = 1

\* The normalized text of a date, position by position: the text in lower case
\* without its brackets and question marks, without its circa markers (every c,
\* an a that follows a c, and a dot that follows either marker), and trimmed.
Normalized(text) ==
    LET s == lower(text)
        is(k, c) == k >= 1 /\ s[k] = c
        marker == {k \in 1..Len(s) :
                     \/ s[k] \in {"[", "]", "(", ")", "?", "c"}
                     \/ s[k] = "a" /\ is(k - 1, "c")
                     \/ s[k] = "." /\ (is(k - 1, "c") \/ (is(k - 1, "a") /\ is(k - 2, "c")))}
    IN  strip(Rewrite((1..Len(s)) \ marker, s))

\* four digits in a row somewhere in s
HasFourDigits(s) == \E i \in 1..Len(s) : DigitsAt(s, i, 4)

\* C12: for a container of one text, extract_dates returns the empty string
\* exactly when the normalized text has no run of four digits.
C12_EmptyIffNoYear ==
    (pc = "returned" /\ Len(arg) = 1 /\ arg[1].kind = "str")
        => /\ ret.ok
           /\ (ret.val = <<>>) <=> ~HasFourDigits(Normalized(arg[1].s))

\* three digits and a question mark in brackets came back as the empty string
C12_Witness ==
    /\ pc = "returned"
    /\ arg = <<StrFrag(<<"[","1","9","2","?","]">>)>>
    /\ ret = Ok(<<>>)

\* the same rows, each as many times in a as in b
SameRows(a, b) ==
    /\ Len(a) = Len(b)
    /\ \A i \in 1..Len(a) :
         Cardinality({j \in 1..Len(a) : a[j] = a[i]})
            = Cardinality({j \in 1..Len(b) : b[j] = a[i]})

\* C11: two runs over the same files in two orders, the disk failing in neither,
\* end with the same rows, the same error count, and the CSV file written in both
\* or in neither.
C11_OrderIndependent ==
    (pc \in {"saved", "save_error"} /\ ret.ok /\ ~ret.val.io /\ ~IoFailed)
        => /\ SameRows(data_list, ret.val.rows)
           /\ file_open_error = ret.val.errors
           /\ (pc = "saved") = ret.val.written

====
